---- MODULE Spec2Model ----
(***************************************************************************)
(* The map console of the crowd dashboard (DOMContentLoaded handler):      *)
(* the agent-marker reconciler fed by the WebSocket, the click controller  *)
(* for route selection and infrastructure placement, the route preview     *)
(* request/response flow and the infrastructure refresh; and the density   *)
(* layer of the React dashboard (MapContainer.jsx): percentile-clipped     *)
(* normalization, drawHexes, runPrediction and the auto-refresh effect;    *)
(* and the AI assistant of App.jsx.                                        *)
(*                                                                         *)
(* All handlers run on one event loop, so every handler (and every promise *)
(* callback) is one atomic action.  Requests in flight are kept as a       *)
(* sequence, or as a count where no handler reads what was sent; a         *)
(* response is an action that takes one of them away.                      *)
(***************************************************************************)
EXTENDS Integers, Sequences, FiniteSets, TLC

VARIABLES
    \* ---- agent markers (ws.onmessage, agentsClearBtn)
    agentMarkers,     \* const agentMarkers = {}: property key -> marker handle
    mapLayers,        \* agent circles on the map: handle -> [latlng, style]
    clearReqs,        \* DELETE /agents requests in flight (a count)
    lastMsg,          \* history: the last reconciler operation and what it did
    \* ---- route selection (map click, select buttons, clear route)
    selecting,        \* 'source' | 'dest' | null
    sourceLatLng,     \* <<>> (null) or <<point>>
    destLatLng,       \* <<>> (null) or <<point>>
    sourceMarker,     \* <<>> (null) or <<point the marker sits at>>
    destMarker,       \* <<>> (null) or <<point the marker sits at>>
    routeLine,        \* <<>> (null) or <<list of [lat, lng] pairs>>
    mapPins,          \* selection markers on the map: [kind, at], in any order
    mapPaths,         \* preview polylines on the map: lists of [lat, lng]
    selectSourceActive, \* selectSourceBtn has class 'active'
    selectDestActive,   \* selectDestBtn has class 'active'
    addRoutedDisabled,  \* addRoutedBtn.disabled
    clearRouteDisabled, \* clearRouteBtn.disabled
    startEventDisabled, \* startEventBtn.disabled
    previewReqs,      \* POST /route-preview requests in flight
    \* ---- infrastructure placement and refresh
    infraMode,        \* 'gateway' | 'tower' | 'toll' | null
    infraActive,      \* the infra mode buttons that have class 'active'
    cancelModeDisabled, \* cancelModeBtn.disabled
    addReqs,          \* POST /add-* requests in flight
    infraFetches,     \* GET /infra-stats requests in flight, in issue order
    infraLayers,      \* the three layer groups: name -> sequence of layers
    delReqs,          \* DELETE requests for one record in flight (a count)
    clearInfraReqs,   \* DELETE /infra requests in flight (a count)
    lastOp,           \* history: the last controller or refresh operation
    \* ---- density layer of the dashboard (MapContainer.jsx)
    hexLayer,         \* the layers of hexLayerRef.current, in drawing order
    hexLayerRef,      \* hexLayerRef.current: "group" | "null"
    h3,               \* window.h3 is defined
    status,           \* the status text
    predReqs,         \* prediction fetches in flight, in issue order
    lastPred,         \* history: the last prediction operation
    weights,          \* a list of cell weights
    normalized,       \* what the normalization of drawHexes makes of weights
    \* ---- density auto-refresh (MapContainer.jsx)
    auto,             \* the auto state
    arima,            \* the arima state, one of the effect's dependencies
    autoTimerRef,     \* autoTimerRef.current: <<>> (null) or <<timer id>>
    autoTimers,       \* the interval timers that are set and not cleared
    \* ---- AI assistant of the dashboard (App.jsx)
    messages,         \* the messages state: a list of [type, text]
    inputValue,       \* the inputValue state
    isLoading,        \* the isLoading state
    llmReq,           \* the fetch in flight: <<>> (none) or <<userMessage>>
    lastChat          \* history: the last assistant operation

agentVars == <<agentMarkers, mapLayers, clearReqs, lastMsg>>
selectVars == <<selecting, sourceLatLng, destLatLng, sourceMarker, destMarker,
                routeLine, mapPins, mapPaths, selectSourceActive,
                selectDestActive, addRoutedDisabled, clearRouteDisabled,
                startEventDisabled, previewReqs>>
modeVars == <<infraMode, infraActive, cancelModeDisabled, addReqs>>
infraVars == <<infraFetches, infraLayers>>
delVars == <<delReqs, clearInfraReqs>>
autoVars == <<auto, arima, autoTimerRef, autoTimers>>
densityVars == <<hexLayer, hexLayerRef, h3, status, predReqs, lastPred,
                 weights, normalized, autoVars>>
chatVars == <<messages, inputValue, isLoading, llmReq, lastChat>>
vars == <<agentVars, selectVars, modeVars, infraVars, delVars, lastOp,
         densityVars, chatVars>>

\* ---------------------------------------------------------------- bounds
MaxSnapLen == 2      \* entities in one pushed snapshot
MaxInFlight == 2     \* requests of one kind in flight at a time
MaxCells == 2        \* cells in one prediction response
MaxWeights == 3      \* weights in one list given to the normalization
MaxChat == 2         \* messages sent to the assistant

\* ---------------------------------------------------------------- helpers
Null == <<>>
Some(x) == <<x>>
Range(f) == {f[x] : x \in DOMAIN f}
RemoveAt(s, i) == [j \in 1..(Len(s) - 1) |-> IF j < i THEN s[j] ELSE s[j + 1]]
Without(f, ks) == [k \in DOMAIN f \ ks |-> f[k]]

(***************************************************************************)
(* Agent markers                                                           *)
(***************************************************************************)
\* An entity id as JSON.parse yields it: a number or a string.
NumId(n) == [t |-> "num", n |-> n, s |-> ""]
StrId(s) == [t |-> "str", n |-> 0, s |-> s]
Ids == {NumId(1), StrId("1"), StrId("a")}

\* agentMarkers[agent.id]: a property key is the id converted to a string.
PropertyKey(id) == IF id.t = "num" THEN ToString(id.n) ELSE id.s

\* currentAgentIds.has(agentId) with agentId a property name of for...in,
\* always a string: a Set compares by SameValueZero, a string equals only a
\* string.
SetHas(ids, key) == StrId(key) \in ids

\* const agentMarkers = {}: a property the object has no own value for is
\* looked up in Object.prototype, so agentMarkers["constructor"] is the
\* function Object, and truthy.
InheritedKeys == {"constructor"}

\* The entities a snapshot is drawn from: every id as a routed entity at one
\* position and as an event entity at another (another style).
Agents == [id : Ids, lat : {23}, lon : {75}, type : {"routed"},
           phase : {"none"}, stop : {FALSE}]
           \cup [id : Ids, lat : {24}, lon : {76}, type : {"event"},
                 phase : {"dwelling"}, stop : {FALSE}]

RECURSIVE SeqsUpTo(_, _)
SeqsUpTo(S, n) ==
    IF n = 0 THEN {<<>>}
    ELSE LET shorter == SeqsUpTo(S, n - 1)
         IN  shorter \cup {Append(q, x) : q \in shorter, x \in S}

Snapshots == SeqsUpTo(Agents, MaxSnapLen)

\* Entities with string ids only, one of them the name of a property every
\* object inherits; each in the two looks of Agents.
NamedIds == {StrId("a"), StrId("constructor")}
NamedAgents == [id : NamedIds, lat : {23}, lon : {75}, type : {"routed"},
                phase : {"none"}, stop : {FALSE}]
               \cup [id : NamedIds, lat : {24}, lon : {76}, type : {"event"},
                     phase : {"dwelling"}, stop : {FALSE}]

\* One entity in every combination of type, phase and stop ("" and "none":
\* the field is absent; "parade": a phase the switch does not know), at two
\* positions.
StyleAgents == [id : {StrId("a")}, lat : {23, 24}, lon : {75},
                type : {"event", "random", "routed", ""},
                phase : {"none", "to_dest", "dwelling", "exiting", "settled",
                         "parade"},
                stop : BOOLEAN]

\* markerStyleFor with the stop test first: a stopped event entity loses its
\* phase colour.
markerStyleFor_StopFirst(agent) ==
    IF agent.stop THEN "#0d47a1"
    ELSE IF agent.type = "event"
    THEN CASE agent.phase = "to_dest" -> "#ff9800"
           [] agent.phase = "dwelling" -> "#e53935"
           [] agent.phase = "exiting" -> "#6a1b9a"
           [] agent.phase = "settled" -> "#2e7d32"
           [] OTHER -> "#ffb74d"
    ELSE IF agent.type = "random" THEN "#2d6cdf"
    ELSE "#1976d2"

\* function markerStyleFor: the colour of the style it returns
markerStyleFor(agent) ==
    IF agent.type = "event"
    THEN CASE agent.phase = "to_dest" -> "#ff9800"
           [] agent.phase = "dwelling" -> "#e53935"
           [] agent.phase = "exiting" -> "#6a1b9a"
           [] agent.phase = "settled" -> "#2e7d32"
           [] OTHER -> "#ffb74d"
    ELSE IF agent.stop THEN "#0d47a1"
    ELSE IF agent.type = "random" THEN "#2d6cdf"
    ELSE "#1976d2"

NoMarkers == [k \in {} |-> 0]

\* L.circle(...) makes a new layer object: a handle no live layer has.
FreshHandle(used) == CHOOSE h \in 1..(Cardinality(used) + 1) : h \notin used

\* ForEachAgent that makes a new circle for every entity, known or not: the
\* circle a key had stays on the map.
RECURSIVE ForEachAgent_AlwaysCreate(_, _)
ForEachAgent_AlwaysCreate(agents, st) ==
    IF agents = <<>> THEN st
    ELSE LET agent == Head(agents)
             key == PropertyKey(agent.id)
             shown == [latlng |-> <<agent.lat, agent.lon>>,
                       style |-> markerStyleFor(agent)]
             h == FreshHandle(DOMAIN st.layers)
             next == [markers |-> (key :> h) @@ st.markers,
                      layers |-> (h :> shown) @@ st.layers,
                      ids |-> st.ids \cup {agent.id},
                      creates |-> st.creates + 1,
                      threw |-> FALSE]
         IN  ForEachAgent_AlwaysCreate(Tail(agents), next)

\* agents.forEach(agent => {...}) of ws.onmessage, threading
\* st = [markers, layers, ids, creates].
RECURSIVE ForEachAgent(_, _)
ForEachAgent(agents, st) ==
    IF agents = <<>> THEN st
    ELSE LET agent == Head(agents)
             key == PropertyKey(agent.id)
             shown == [latlng |-> <<agent.lat, agent.lon>>,
                       style |-> markerStyleFor(agent)]
             ids == st.ids \cup {agent.id}
             next ==
                 IF key \in DOMAIN st.markers
                 THEN [st EXCEPT !.ids = ids,
                                 !.layers[st.markers[key]] = shown]
                 ELSE LET h == FreshHandle(DOMAIN st.layers)
                      IN  [markers |-> (key :> h) @@ st.markers,
                           layers |-> (h :> shown) @@ st.layers,
                           ids |-> ids,
                           creates |-> st.creates + 1,
                           threw |-> FALSE]
         IN  IF key \notin DOMAIN st.markers /\ key \in InheritedKeys
             THEN \* the inherited value is truthy and has no setLatLng: a
                  \* TypeError ends the forEach and the handler
                  [st EXCEPT !.ids = ids, !.threw = TRUE]
             ELSE ForEachAgent(Tail(agents), next)

\* AbsentKeys that takes a snapshot without entities as no news: nothing is
\* absent.
AbsentKeys_SkipEmpty(markers, ids) ==
    IF ids = {} THEN {} ELSE {k \in DOMAIN markers : StrId(k) \notin ids}

\* for (const agentId in agentMarkers) if (!currentAgentIds.has(agentId)) ...
AbsentKeys(markers, ids) == {k \in DOMAIN markers : ~SetHas(ids, k)}

\* ws.onmessage
OnMessage(agents) ==
    \E st \in {ForEachAgent(agents, [markers |-> agentMarkers,
                                      layers |-> mapLayers,
                                      ids |-> {}, creates |-> 0,
                                      threw |-> FALSE])} :
    \* the loop of lines 289-293 is not reached when the forEach threw
    \E gone \in {IF st.threw THEN {}
                 ELSE AbsentKeys(st.markers, st.ids)} :
        /\ agentMarkers' = Without(st.markers, gone)
        /\ mapLayers' = Without(st.layers, {st.markers[k] : k \in gone})
        /\ lastMsg' = [op |-> IF st.threw THEN "threw" ELSE "message",
                       snap |-> agents,
                       creates |-> st.creates,
                       destroys |-> Cardinality(gone)]
        /\ UNCHANGED clearReqs
        /\ UNCHANGED <<chatVars, selectVars, modeVars, infraVars, delVars, lastOp,
                   densityVars>>

\* agentsClearBtn click: fetch DELETE /agents
ClickAgentsClear ==
    /\ clearReqs < MaxInFlight
    /\ clearReqs' = clearReqs + 1
    /\ UNCHANGED <<agentMarkers, mapLayers, lastMsg>>
    /\ UNCHANGED <<chatVars, selectVars, modeVars, infraVars, delVars, lastOp,
                   densityVars>>

\* the DELETE /agents promise settles: .then runs when fetch resolves (any
\* HTTP status); a rejected fetch runs nothing.
AgentsClearSettled(resolved) ==
    /\ clearReqs > 0
    /\ clearReqs' = clearReqs - 1
    /\ IF resolved
       THEN /\ agentMarkers' = NoMarkers
            /\ mapLayers' = Without(mapLayers, Range(agentMarkers))
            /\ lastMsg' = [op |-> "clear", snap |-> <<>>, creates |-> 0,
                           destroys |-> Cardinality(DOMAIN agentMarkers)]
       ELSE UNCHANGED <<agentMarkers, mapLayers, lastMsg>>
    /\ UNCHANGED <<chatVars, selectVars, modeVars, infraVars, delVars, lastOp,
                   densityVars>>

(***************************************************************************)
(* Route selection and placement mode                                      *)
(***************************************************************************)
Points == {[lat |-> 23, lng |-> 75], [lat |-> 24, lng |-> 76],
           [lat |-> 25, lng |-> 77]}
InfraKinds == {"gateway", "tower", "toll"}

\* updateRouteStatus as rebound at line 382: the original, then
\* updateEventButtonEnable; src and dst are the values it reads.
updateRouteStatus(src, dst) ==
    LET ready == src # Null /\ dst # Null
    IN  /\ addRoutedDisabled' = ~ready
        /\ clearRouteDisabled' = (~ready /\ src = Null /\ dst = Null)
        /\ startEventDisabled' = ~(src # Null /\ dst # Null)

\* History: a request in flight is stale once source or destination no longer
\* has the value it had when the request was sent.
StaleAfter(reqs, src, dst) ==
    IF src = sourceLatLng /\ dst = destLatLng THEN reqs
    ELSE [i \in DOMAIN reqs |-> [reqs[i] EXCEPT !.stale = TRUE]]

\* History: how far the default flow (click, click, click with no button
\* pressed in between) has come.
FlowAfterClick ==
    IF lastOp.flow \in {1, 2} THEN lastOp.flow + 1
    ELSE IF infraMode = "null" /\ selecting = "null" /\ sourceLatLng = Null
    THEN 1 ELSE 0

\* History: the record of one operation. stale: the response handled was
\* stale (a preview) or late (a refresh); sent: the request body it sent;
\* shown: a preview path was rendered when the operation began; text: the
\* value of the input field a placement click read; got: the data of the
\* response handled.
Ui(op, at, branch) ==
    [op |-> op, at |-> at, branch |-> branch, stale |-> FALSE, flow |-> 0,
     sent |-> Null, shown |-> routeLine # Null, text |-> "", got |-> Null]

\* map.removeLayer(layer): the layers left (layers listed in any order)
RemoveLayer(layers, layer) ==
    IF \E i \in DOMAIN layers : layers[i] = layer
    THEN RemoveAt(layers, CHOOSE i \in DOMAIN layers : layers[i] = layer)
    ELSE layers

\* A selection marker as a layer of the map
Pin(kind, p) == [kind |-> kind, at |-> p]

\* PlacePin that makes a new marker every time: the one placed before
\* stays where it was.
PlacePin_AlwaysAdd(pins, kind, marker, p) == Append(pins, Pin(kind, p))

\* if (marker) marker.setLatLng(e.latlng); else marker = L.marker(...)
\* .addTo(map): the markers on the map afterwards
PlacePin(pins, kind, marker, p) ==
    IF marker # Null
    THEN [i \in DOMAIN pins |->
            IF i = (CHOOSE k \in DOMAIN pins : pins[k] = Pin(kind, marker[1]))
            THEN Pin(kind, p) ELSE pins[i]]
    ELSE Append(pins, Pin(kind, p))

\* if (marker) { map.removeLayer(marker); ... }
DropPin(pins, kind, marker) ==
    IF marker # Null THEN RemoveLayer(pins, Pin(kind, marker[1])) ELSE pins

\* if (routeLine) { map.removeLayer(routeLine); ... }
DropPath(paths, line) ==
    IF line # Null THEN RemoveLayer(paths, line[1]) ELSE paths

\* function clearRouteSelection, run by clearRouteBtn (which takes no click
\* while disabled)
clearRouteSelection ==
    /\ ~clearRouteDisabled
    /\ sourceMarker' = Null
    /\ destMarker' = Null
    /\ routeLine' = Null
    /\ mapPins' = DropPin(DropPin(mapPins, "src", sourceMarker),
                          "dst", destMarker)
    /\ mapPaths' = DropPath(mapPaths, routeLine)
    /\ sourceLatLng' = Null
    /\ destLatLng' = Null
    /\ selecting' = "null"
    /\ updateRouteStatus(Null, Null)
    /\ previewReqs' = StaleAfter(previewReqs, Null, Null)
    /\ lastOp' = Ui("clearRoute", Null, "none")
    /\ UNCHANGED <<selectSourceActive, selectDestActive>>
    /\ UNCHANGED <<chatVars, agentVars, delVars, modeVars, infraVars, densityVars>>

\* selectSourceBtn click
SelectSourceClick ==
    /\ selecting' = "source"
    /\ selectSourceActive' = TRUE
    /\ selectDestActive' = FALSE
    /\ lastOp' = Ui("selectSource", Null, "none")
    /\ UNCHANGED <<sourceLatLng, destLatLng, sourceMarker, destMarker,
                   routeLine, mapPins, mapPaths, addRoutedDisabled,
                   clearRouteDisabled, startEventDisabled, previewReqs>>
    /\ UNCHANGED <<chatVars, agentVars, delVars, modeVars, infraVars, densityVars>>

\* selectDestBtn click
SelectDestClick ==
    /\ selecting' = "dest"
    /\ selectDestActive' = TRUE
    /\ selectSourceActive' = FALSE
    /\ lastOp' = Ui("selectDest", Null, "none")
    /\ UNCHANGED <<sourceLatLng, destLatLng, sourceMarker, destMarker,
                   routeLine, mapPins, mapPaths, addRoutedDisabled,
                   clearRouteDisabled, startEventDisabled, previewReqs>>
    /\ UNCHANGED <<chatVars, agentVars, delVars, modeVars, infraVars, densityVars>>

\* function setInfraMode(mode)
setInfraMode(mode) ==
    /\ infraMode' = mode
    /\ infraActive' = {mode} \cap InfraKinds
    /\ cancelModeDisabled' = (mode = "null")
    /\ lastOp' = Ui("setInfraMode", Null, mode)
    /\ UNCHANGED addReqs
    /\ UNCHANGED <<chatVars, agentVars, delVars, selectVars, infraVars, densityVars>>

\* gatewayBtn, towerBtn, tollBtn click
InfraModeClick(kind) == setInfraMode(kind)

\* cancelModeBtn click (no click while disabled)
CancelModeClick == ~cancelModeDisabled /\ setInfraMode("null")

\* parseFloat on the text of an input field: NaN, or the number in
\* hundredths ("0.05" is 5).
InputTexts == {"", "abc", "0", "0.05"}
parseFloat(text) ==
    CASE text = "0" -> [nan |-> FALSE, v |-> 0]
      [] text = "0.05" -> [nan |-> FALSE, v |-> 5]
      [] OTHER -> [nan |-> TRUE, v |-> 0]
\* The text of the field a click reads: towerRadiusInput in tower mode,
\* tollFeeInput in toll mode; no field is read otherwise.
FieldTexts == IF infraMode \in {"tower", "toll"} THEN InputTexts ELSE {""}
DefaultRadius == Some(1)       \* 0.01, in hundredths

\* OrElse that keeps the parsed value whatever it is: NaN goes out as 0.
OrElse_NoDefault(x, d) == Some(x.v)
\* x || d : NaN and 0 are falsy
OrElse(x, d) == IF x.nan \/ x.v = 0 THEN d ELSE Some(x.v)

\* AddRequest with the coordinates crossed: lon takes the latitude.
AddRequest_LatLonCrossed(kind, p, text) ==
    [url |-> CASE kind = "gateway" -> "add-gateway"
               [] kind = "tower" -> "add-mobile-tower"
               [] kind = "toll" -> "add-toll-gate",
     lon |-> p.lat, lat |-> p.lng, extra |-> Null]

\* the request a click in placement mode sends (lines 181-199)
AddRequest(kind, p, text) ==
    CASE kind = "gateway" ->
           [url |-> "add-gateway", lon |-> p.lng, lat |-> p.lat,
            extra |-> Null]
      [] kind = "tower" ->
           [url |-> "add-mobile-tower", lon |-> p.lng, lat |-> p.lat,
            extra |-> OrElse(parseFloat(text), DefaultRadius)]
      [] kind = "toll" ->
           [url |-> "add-toll-gate", lon |-> p.lng, lat |-> p.lat,
            extra |-> OrElse(parseFloat(text), Null)]

\* the body of the route-preview request (lines 223-229)
PreviewBody(src, dst) ==
    [number |-> 1, source_lat |-> src.lat, source_lon |-> src.lng,
     dest_lat |-> dst.lat, dest_lon |-> dst.lng]

\* ClickBranch without the final else: a click with both points set picks a
\* new destination.
ClickBranch_NoReset ==
    IF infraMode # "null" THEN "infra"
    ELSE IF selecting = "source" \/ (sourceLatLng = Null /\ selecting = "null")
    THEN "source"
    ELSE "dest"

\* ClickBranch with the selection armed by a select button served before
\* the placement mode.
ClickBranch_SelectingFirst ==
    IF selecting = "source" THEN "source"
    ELSE IF selecting = "dest" THEN "dest"
    ELSE IF infraMode # "null" THEN "infra"
    ELSE IF sourceLatLng = Null THEN "source"
    ELSE IF destLatLng = Null THEN "dest"
    ELSE "reset"

\* which branch of the click handler a click takes (lines 179, 203, 214, 237)
ClickBranch ==
    IF infraMode # "null" THEN "infra"
    ELSE IF selecting = "source" \/ (sourceLatLng = Null /\ selecting = "null")
    THEN "source"
    ELSE IF selecting = "dest" \/ (destLatLng = Null /\ sourceLatLng # Null)
    THEN "dest"
    ELSE "reset"

\* lines 247-250, the end of the click handler
ClickTail(src, dst) ==
    /\ selecting' = "null"
    /\ selectSourceActive' = FALSE
    /\ selectDestActive' = FALSE
    /\ updateRouteStatus(src, dst)

\* map.on('click') with e.latlng = p; text is the value of the input field
\* the placement branch reads.
MapClick(p, text) ==
    LET branch == ClickBranch
        click == [Ui("click", Some(p), branch) EXCEPT !.flow = FlowAfterClick]
    IN
    CASE branch = "infra" ->
           /\ addReqs < MaxInFlight
           /\ addReqs' = addReqs + 1
           /\ lastOp' = [click EXCEPT
                           !.sent = Some(AddRequest(infraMode, p, text)),
                           !.text = text]
           /\ UNCHANGED <<infraMode, infraActive, cancelModeDisabled>>
           /\ UNCHANGED <<chatVars, agentVars, delVars, selectVars, infraVars, densityVars>>
      [] branch = "source" ->
           /\ sourceLatLng' = Some(p)
           /\ sourceMarker' = Some(p)
           /\ destLatLng' = Null
           /\ IF destLatLng # Null
              THEN /\ destMarker' = Null /\ routeLine' = Null
                   /\ mapPins' = DropPin(PlacePin(mapPins, "src",
                                                  sourceMarker, p),
                                         "dst", destMarker)
                   /\ mapPaths' = DropPath(mapPaths, routeLine)
              ELSE /\ UNCHANGED <<destMarker, routeLine, mapPaths>>
                   /\ mapPins' = PlacePin(mapPins, "src", sourceMarker, p)
           /\ ClickTail(Some(p), Null)
           /\ previewReqs' = StaleAfter(previewReqs, Some(p), Null)
           /\ lastOp' = click
           /\ UNCHANGED <<chatVars, agentVars, delVars, modeVars, infraVars, densityVars>>
      [] branch = "dest" /\ sourceLatLng = Null ->
           \* sourceLatLng.lat throws: the handler ends at line 225
           /\ destLatLng' = Some(p)
           /\ destMarker' = Some(p)
           /\ previewReqs' = StaleAfter(previewReqs, sourceLatLng, Some(p))
           /\ lastOp' = [click EXCEPT !.branch = "destThrow"]
           /\ mapPins' = PlacePin(mapPins, "dst", destMarker, p)
           /\ UNCHANGED <<selecting, sourceLatLng, sourceMarker, routeLine,
                          mapPaths,
                          selectSourceActive, selectDestActive,
                          addRoutedDisabled, clearRouteDisabled,
                          startEventDisabled>>
           /\ UNCHANGED <<chatVars, agentVars, delVars, modeVars, infraVars, densityVars>>
      [] branch = "dest" /\ sourceLatLng # Null ->
           /\ Len(previewReqs) < MaxInFlight
           /\ destLatLng' = Some(p)
           /\ destMarker' = Some(p)
           /\ previewReqs' =
                Append(StaleAfter(previewReqs, sourceLatLng, Some(p)),
                       [body |-> PreviewBody(sourceLatLng[1], p),
                        stale |-> FALSE])
           /\ ClickTail(sourceLatLng, Some(p))
           /\ lastOp' = [click EXCEPT
                           !.sent = Some(PreviewBody(sourceLatLng[1], p))]
           /\ mapPins' = PlacePin(mapPins, "dst", destMarker, p)
           /\ UNCHANGED <<sourceLatLng, sourceMarker, routeLine, mapPaths>>
           /\ UNCHANGED <<chatVars, agentVars, delVars, modeVars, infraVars, densityVars>>
      [] branch = "reset" ->
           /\ sourceLatLng' = Some(p)
           /\ sourceMarker' = Some(p)
           /\ destLatLng' = Null
           /\ destMarker' = Null
           /\ routeLine' = Null
           /\ mapPins' = DropPin(PlacePin(mapPins, "src", sourceMarker, p),
                                 "dst", destMarker)
           /\ mapPaths' = DropPath(mapPaths, routeLine)
           /\ ClickTail(Some(p), Null)
           /\ previewReqs' = StaleAfter(previewReqs, Some(p), Null)
           /\ lastOp' = click
           /\ UNCHANGED <<chatVars, agentVars, delVars, modeVars, infraVars, densityVars>>

\* The server's answer to a route-preview request: points as [lon, lat]
\* pairs from the source to the destination.
RoutePoints(body) ==
    << <<body.source_lon, body.source_lat>>,
       <<body.dest_lon, body.dest_lat>> >>

\* The points taken as they come, [lon, lat] as if it were [lat, lon].
ToLatLngs_Unswapped(points) == points

\* data.points.map(p => [p[1], p[0]])
ToLatLngs(points) == [i \in DOMAIN points |-> <<points[i][2], points[i][1]>>]

\* PreviewSettled that takes a failure as the end of the preview: the path
\* on the map is removed.
PreviewSettled_FailureClears(i, outcome) ==
    /\ i \in DOMAIN previewReqs
    /\ previewReqs' = RemoveAt(previewReqs, i)
    /\ IF outcome = "ok"
       THEN /\ routeLine' = Some(ToLatLngs(RoutePoints(previewReqs[i].body)))
            /\ mapPaths' = Append(DropPath(mapPaths, routeLine),
                                  ToLatLngs(RoutePoints(previewReqs[i].body)))
       ELSE /\ routeLine' = Null
            /\ mapPaths' = DropPath(mapPaths, routeLine)
    /\ lastOp' = [Ui("previewSettled", Null, outcome) EXCEPT
                    !.stale = previewReqs[i].stale,
                    !.flow = lastOp.flow]
    /\ UNCHANGED <<selecting, sourceLatLng, destLatLng, sourceMarker,
                   destMarker, mapPins, selectSourceActive, selectDestActive,
                   addRoutedDisabled, clearRouteDisabled, startEventDisabled>>
    /\ UNCHANGED <<chatVars, agentVars, delVars, modeVars, infraVars, densityVars>>

\* the route-preview promise chain settles (lines 230-236): outcome "ok" is
\* data.ok true, "refused" is data.ok false, "error" a rejected fetch or an
\* unparsable body (caught, nothing runs).
PreviewSettled(i, outcome) ==
    /\ i \in DOMAIN previewReqs
    /\ previewReqs' = RemoveAt(previewReqs, i)
    /\ IF outcome = "ok"
       THEN /\ routeLine' = Some(ToLatLngs(RoutePoints(previewReqs[i].body)))
            /\ mapPaths' = Append(DropPath(mapPaths, routeLine),
                                  ToLatLngs(RoutePoints(previewReqs[i].body)))
       ELSE UNCHANGED <<routeLine, mapPaths>>
    /\ lastOp' = [Ui("previewSettled", Null, outcome) EXCEPT
                    !.stale = previewReqs[i].stale,
                    !.flow = lastOp.flow]
    /\ UNCHANGED <<selecting, sourceLatLng, destLatLng, sourceMarker,
                   destMarker, mapPins, selectSourceActive, selectDestActive,
                   addRoutedDisabled, clearRouteDisabled, startEventDisabled>>
    /\ UNCHANGED <<chatVars, agentVars, delVars, modeVars, infraVars, densityVars>>

\* RouteCoords with source and destination exchanged.
RouteCoords_Exchanged(src, dst) ==
    [source_lat |-> dst.lat, source_lon |-> dst.lng,
     dest_lat |-> src.lat, dest_lon |-> src.lng]

\* source_lat, source_lon, dest_lat, dest_lon of the add-crowd-route body
\* (lines 436-439) and of the start-event body (lines 328-331)
RouteCoords(src, dst) ==
    [source_lat |-> src.lat, source_lon |-> src.lng,
     dest_lat |-> dst.lat, dest_lon |-> dst.lng]

\* parseInt(numberInput.value, 10) || 1 for the texts of the crowd-size
\* field
CrowdTexts == {"", "0", "3"}
CrowdNumber(text) == IF text = "3" THEN 3 ELSE 1

\* addRoutedBtn click (lines 427-447; no click while the button is
\* disabled): the request sent, if any.  The response is only logged.
AddRoutedClick(text) ==
    /\ ~addRoutedDisabled
    /\ lastOp' =
         IF sourceLatLng # Null /\ destLatLng # Null
         THEN [Ui("addRouted", Null, "sent") EXCEPT
                 !.sent = Some([url |-> "add-crowd-route",
                                number |-> CrowdNumber(text),
                                coords |-> RouteCoords(sourceLatLng[1],
                                                       destLatLng[1])]),
                 !.text = text]
         ELSE Ui("addRouted", Null, "returned")
    /\ UNCHANGED <<chatVars, agentVars, delVars, selectVars, modeVars, infraVars,
                   densityVars>>

\* startEventBtn click (lines 325-341; no click while the button is
\* disabled): the request sent, if any.  The six event parameters the body
\* also carries are read from the form and have no part in the model
\* (number stands for none of them: 0).
StartEventClick ==
    /\ ~startEventDisabled
    /\ lastOp' =
         IF sourceLatLng # Null /\ destLatLng # Null
         THEN [Ui("startEvent", Null, "sent") EXCEPT
                 !.sent = Some([url |-> "start-event",
                                number |-> 0,
                                coords |-> RouteCoords(sourceLatLng[1],
                                                       destLatLng[1])])]
         ELSE Ui("startEvent", Null, "returned")
    /\ UNCHANGED <<chatVars, agentVars, delVars, selectVars, modeVars, infraVars,
                   densityVars>>

(***************************************************************************)
(* Infrastructure refresh                                                  *)
(***************************************************************************)
\* What GET /infra-stats may answer: every combination of no or one gateway,
\* no tower, a tower with a radius or one without, no or one toll gate.
InfraSnaps ==
    [gateways : {<<>>, <<[id |-> "g1", lat |-> 23, lon |-> 75]>>},
     mobile_towers : {<<>>,
                      <<[id |-> "t1", lat |-> 24, lon |-> 76, radius |-> 1]>>,
                      <<[id |-> "t2", lat |-> 24, lon |-> 76, radius |-> 0]>>},
     toll_gates : {<<>>, <<[id |-> "x1", lat |-> 25, lon |-> 77]>>}]

CircleMarker(r) == [shape |-> "circleMarker", lat |-> r.lat, lon |-> r.lon,
                    id |-> r.id]
RadiusCircle(r) == [shape |-> "circle", lat |-> r.lat, lon |-> r.lon,
                    id |-> r.id]

\* (snap.gateways||[]).forEach / (snap.toll_gates||[]).forEach: one marker
\* per record, in order.
MarkersOf(records) == [i \in DOMAIN records |-> CircleMarker(records[i])]

\* (snap.mobile_towers||[]).forEach: the marker, then the radius circle when
\* t.radius is truthy.
RECURSIVE TowerLayers(_)
TowerLayers(records) ==
    IF records = <<>> THEN <<>>
    ELSE LET t == Head(records)
         IN  <<CircleMarker(t)>>
             \o (IF t.radius # 0 THEN <<RadiusCircle(t)>> ELSE <<>>)
             \o TowerLayers(Tail(records))

\* clearInfraLayers
NoInfraLayers == [gateways |-> <<>>, tower |-> <<>>, toll |-> <<>>]

\* RenderInfra without clearInfraLayers: the new layers are added to the
\* ones the groups hold.
RenderInfra_NoClear(snap) ==
    IF snap = Null THEN infraLayers
    ELSE [gateways |-> infraLayers.gateways \o MarkersOf(snap[1].gateways),
          tower |-> infraLayers.tower \o TowerLayers(snap[1].mobile_towers),
          toll |-> infraLayers.toll \o MarkersOf(snap[1].toll_gates)]

\* lines 132-167: the groups after the response was applied; snap is Null
\* when the fetch or the parse failed (.catch(()=>null)).
RenderInfra(snap) ==
    IF snap = Null THEN NoInfraLayers
    ELSE [gateways |-> MarkersOf(snap[1].gateways),
          tower |-> TowerLayers(snap[1].mobile_towers),
          toll |-> MarkersOf(snap[1].toll_gates)]

\* loadInfrastructure up to its await: the fetch is sent. late is history:
\* a refresh issued after this one has already been answered with data.
loadInfrastructure == infraFetches' = Append(infraFetches, [late |-> FALSE])

\* gatewayStatsBtn click
RefreshClick ==
    /\ Len(infraFetches) < MaxInFlight
    /\ loadInfrastructure
    /\ lastOp' = Ui("refreshClick", Null, "none")
    /\ UNCHANGED infraLayers
    /\ UNCHANGED <<chatVars, agentVars, delVars, selectVars, modeVars, densityVars>>

\* setInterval(loadInfrastructure, 15000)
RefreshTimer ==
    /\ Len(infraFetches) < MaxInFlight
    /\ loadInfrastructure
    /\ lastOp' = Ui("refreshTimer", Null, "none")
    /\ UNCHANGED infraLayers
    /\ UNCHANGED <<chatVars, agentVars, delVars, selectVars, modeVars, densityVars>>

\* How the fetch of a command ends: an HTTP success, another HTTP status
\* (the promise resolves all the same), or a network error (it rejects).
HttpOutcomes == {"ok", "httpError", "networkError"}

\* a POST /add-* promise settles: .then(()=> loadInfrastructure()) runs when
\* fetch resolved (any HTTP status), nothing runs when it rejected.
AddSettled(outcome) ==
    /\ addReqs > 0
    /\ addReqs' = addReqs - 1
    /\ IF outcome # "networkError"
       THEN Len(infraFetches) < MaxInFlight /\ loadInfrastructure
       ELSE UNCHANGED infraFetches
    /\ lastOp' = Ui("addSettled", Null, outcome)
    /\ UNCHANGED <<infraMode, infraActive, cancelModeDisabled, infraLayers>>
    /\ UNCHANGED <<chatVars, agentVars, delVars, selectVars, densityVars>>

\* The contextmenu handler of the i-th layer of a group (lines 139-143,
\* 152-156, 161-165); confirmed is what confirm() returns.  The radius
\* circle of a tower has no handler.
DeletePath(group) == CASE group = "gateways" -> "gateways"
                       [] group = "tower" -> "mobile-towers"
                       [] group = "toll" -> "toll-gates"
ContextMenu(group, i, confirmed) ==
    /\ i \in DOMAIN infraLayers[group]
    /\ infraLayers[group][i].shape = "circleMarker"
    /\ IF confirmed
       THEN /\ delReqs < MaxInFlight
            /\ delReqs' = delReqs + 1
            /\ lastOp' = [Ui("contextmenu", Some([group |-> group, i |-> i]),
                             "confirmed") EXCEPT
                            !.sent = Some([url |-> DeletePath(group),
                                           id |-> infraLayers[group][i].id])]
       ELSE /\ UNCHANGED delReqs
            /\ lastOp' = Ui("contextmenu", Some([group |-> group, i |-> i]),
                            "declined")
    /\ UNCHANGED <<clearInfraReqs, infraVars>>
    /\ UNCHANGED <<chatVars, agentVars, selectVars, modeVars, densityVars>>

\* a DELETE of one record settles (.then(()=> loadInfrastructure()))
DeleteSettled(outcome) ==
    /\ delReqs > 0
    /\ delReqs' = delReqs - 1
    /\ IF outcome # "networkError"
       THEN Len(infraFetches) < MaxInFlight /\ loadInfrastructure
       ELSE UNCHANGED infraFetches
    /\ lastOp' = Ui("deleteSettled", Null, outcome)
    /\ UNCHANGED <<clearInfraReqs, infraLayers>>
    /\ UNCHANGED <<chatVars, agentVars, selectVars, modeVars, densityVars>>

\* infraClearBtn click (lines 100-103): fetch DELETE /infra
InfraClearClick ==
    /\ clearInfraReqs < MaxInFlight
    /\ clearInfraReqs' = clearInfraReqs + 1
    /\ lastOp' = [Ui("infraClear", Null, "none") EXCEPT
                    !.sent = Some([url |-> "infra", id |-> ""])]
    /\ UNCHANGED <<delReqs, infraVars>>
    /\ UNCHANGED <<chatVars, agentVars, selectVars, modeVars, densityVars>>

\* the DELETE /infra promise settles (.then(()=> loadInfrastructure()))
InfraClearSettled(outcome) ==
    /\ clearInfraReqs > 0
    /\ clearInfraReqs' = clearInfraReqs - 1
    /\ IF outcome # "networkError"
       THEN Len(infraFetches) < MaxInFlight /\ loadInfrastructure
       ELSE UNCHANGED infraFetches
    /\ lastOp' = Ui("infraClearSettled", Null, outcome)
    /\ UNCHANGED <<delReqs, infraLayers>>
    /\ UNCHANGED <<chatVars, agentVars, selectVars, modeVars, densityVars>>

\* History: once a request was answered with data, the requests issued
\* before it are late.
LateAfter(fetches, i, snap) ==
    [j \in 1..(Len(fetches) - 1) |->
        IF j < i
        THEN [late |-> fetches[j].late \/ snap # Null]
        ELSE fetches[j + 1]]

\* loadInfrastructure after its await (lines 131-167), for the i-th request
\* in flight
InfraSettled(i, snap) ==
    /\ i \in DOMAIN infraFetches
    /\ infraFetches' = LateAfter(infraFetches, i, snap)
    /\ infraLayers' = RenderInfra(snap)
    /\ lastOp' = [Ui("infraSettled", Null,
                     IF snap = Null THEN "failed" ELSE "ok") EXCEPT
                    !.stale = infraFetches[i].late, !.got = snap]
    /\ UNCHANGED <<chatVars, agentVars, delVars, selectVars, modeVars, densityVars>>

(***************************************************************************)
(* Density layer (MapContainer.jsx)                                        *)
(***************************************************************************)
Max(a, b) == IF a >= b THEN a ELSE b
Min(a, b) == IF a <= b THEN a ELSE b

\* A number that is a quotient of two integers: n / d with d > 0.
Frac(n, d) == [n |-> n, d |-> d]
\* Math.round of a / b (b > 0): the nearest integer, halves upwards
Round(a, b) == (2 * a + b) \div (2 * b)

\* Numbers are doubles: a result whose magnitude is above Number.MAX_VALUE is
\* Infinity.  MaxValue stands for Number.MAX_VALUE in the model's unit, and
\* Infinity for every result above it.
MaxValue == 1000
Infinity == MaxValue + 1
\* a - b in doubles
Sub(a, b) ==
    IF a - b > MaxValue THEN Infinity
    ELSE IF a - b < -MaxValue THEN -Infinity
    ELSE a - b
\* Infinity / Infinity and Infinity - Infinity
NaN == Frac(0, 0)
\* Math.round(NaN), as it prints in an rgb(...) string
NaNChannel == -1

\* [...].sort((a, b) => a - b): the k-th element of the result is the value
\* with fewer than k elements below it and at least k not above it.
SortAsc(ws) ==
    [k \in 1..Len(ws) |->
        CHOOSE v \in Range(ws) :
            /\ Cardinality({j \in DOMAIN ws : ws[j] < v}) < k
            /\ Cardinality({j \in DOMAIN ws : ws[j] <= v}) >= k]

\* q(p) of line 69, with p = pct / 100 and ws sorted (indices from 1 here)
q(ws, pct) ==
    ws[Max(0, Min(Len(ws) - 1, (pct * (Len(ws) - 1)) \div 100)) + 1]

\* lines 68-72: lo, hi and range of a non-empty list of weights
Percentiles(ws) ==
    LET sorted == SortAsc(ws)
        lo == q(sorted, 5)
        hi == q(sorted, 95)
    IN  [lo |-> lo, hi |-> hi,
         range |-> IF Sub(hi, lo) = 0 THEN 1 ELSE Sub(hi, lo)]

\* Norm without the clamp: a weight outside lo..hi extends the scale.
Norm_Unclamped(weight, pc) == Frac(weight - pc.lo, pc.range)

\* lines 79-80 and 95-96: norm of a weight, clamped to 0..1
Norm(weight, pc) ==
    LET diff == Sub(weight, pc.lo)
    IN  IF pc.range = Infinity
        THEN \* Infinity / Infinity is NaN, and Math.min and Math.max keep
             \* NaN; a finite difference over Infinity is 0
             IF diff \in {Infinity, -Infinity} THEN NaN ELSE Frac(0, 1)
        ELSE Frac(Max(0, Min(pc.range, diff)), pc.range)

\* lines 47-51: the colour of norm = n / d by the first formula, with
\* t = norm / 0.5 = 2n / d; the result is <<r, g, b>>
LowerHalf(norm) ==
    <<Round(68 * norm.d + 187 * 2 * norm.n, norm.d),
      Round(68 * norm.d + 167 * 2 * norm.n, norm.d),
      Round(68 * norm.d - 9 * 2 * norm.n, norm.d)>>

\* lines 53-57: the colour by the second formula, with
\* t = (norm - 0.5) / 0.5 = (2n - d) / d
UpperHalf(norm) ==
    <<Round(255 * norm.d - 11 * (2 * norm.n - norm.d), norm.d),
      Round(235 * norm.d - 168 * (2 * norm.n - norm.d), norm.d),
      Round(59 * norm.d - 5 * (2 * norm.n - norm.d), norm.d)>>

\* An interpolation between the two outer colours only, without the middle
\* one.
colorForWeight_TwoAnchor(norm) ==
    <<Round(68 * norm.d + 176 * norm.n, norm.d),
      Round(68 * norm.d - norm.n, norm.d),
      Round(68 * norm.d - 14 * norm.n, norm.d)>>

\* function colorForWeight, norm = n / d in 0..1; the result is <<r, g, b>>.
\* For every norm this model computes (d up to 7, and d = 90) the double
\* arithmetic of the function gives the same channels as the exact quotients
\* here.
colorForWeight(norm) ==
    IF norm = NaN
    THEN \* NaN <= 0.5 is false, and the second formula rounds NaN
         <<NaNChannel, NaNChannel, NaNChannel>>
    ELSE IF 2 * norm.n <= norm.d THEN LowerHalf(norm) ELSE UpperHalf(norm)

\* The cells a prediction response is drawn from.  h3_index: "" when the
\* cell has none, "zz" one that h3.cellToBoundary throws on; lat, lon: the
\* number; weight: an integer.
Cells ==
    {[h3_index |-> "8a", lat |-> 23, lon |-> 75, weight |-> 1],
     [h3_index |-> "zz", lat |-> 24, lon |-> 76, weight |-> 2],
     [h3_index |-> "", lat |-> 0, lon |-> 77, weight |-> 3],
     [h3_index |-> "", lat |-> 26, lon |-> 0, weight |-> 2],
     [h3_index |-> "", lat |-> 25, lon |-> 77, weight |-> 5]}
TileLists == SeqsUpTo(Cells, MaxCells)

\* window.h3.cellToBoundary(index) returns a boundary (or throws)
Resolvable(index) == index = "8a"

\* the body of tiles.forEach (lines 74-112): the layers one cell adds
DrawTile(t, pc) ==
    LET norm == Norm(t.weight, pc)
    IN  IF h3 /\ t.h3_index # ""
        THEN IF Resolvable(t.h3_index)
             THEN <<[kind |-> "polygon", cell |-> t, norm |-> norm,
                     fillColor |-> colorForWeight(norm), radius |-> Null]>>
             ELSE <<>>      \* caught, console.warn
        ELSE IF t.lat # 0 /\ t.lon # 0
        THEN <<[kind |-> "circle", cell |-> t, norm |-> norm,
                fillColor |-> colorForWeight(norm),
                radius |-> Some(Frac(50 * norm.d + 200 * norm.n, norm.d))]>>
        ELSE <<>>

RECURSIVE ForEachTile(_, _)
ForEachTile(tiles, pc) ==
    IF tiles = <<>> THEN <<>>
    ELSE DrawTile(Head(tiles), pc) \o ForEachTile(Tail(tiles), pc)

\* drawHexes without clearLayers: the new shapes are added to the old ones.
drawHexes_NoClear(tiles) ==
    IF hexLayerRef = "null" THEN hexLayer
    ELSE IF tiles = Null \/ tiles = Some(<<>>) THEN hexLayer
    ELSE hexLayer \o ForEachTile(tiles[1],
                                 Percentiles([i \in DOMAIN tiles[1] |->
                                                 tiles[1][i].weight]))

\* function drawHexes: the layers of the group after drawHexes(tiles);
\* tiles is Null for a missing list.
drawHexes(tiles) ==
    IF hexLayerRef = "null" THEN hexLayer
    ELSE IF tiles = Null \/ tiles = Some(<<>>) THEN <<>>
    ELSE ForEachTile(tiles[1],
                     Percentiles([i \in DOMAIN tiles[1] |->
                                     tiles[1][i].weight]))

\* The map initialization effect (lines 160-200), run once when the
\* component has mounted: it makes the layer group, or fails before it does.
MapInit(ok) ==
    /\ lastPred.op = "none"
    /\ hexLayerRef' = IF ok THEN "group" ELSE "null"
    /\ status' = IF ok THEN status ELSE "Map initialization failed"
    /\ lastPred' = [lastPred EXCEPT !.op = "mapInit"]
    /\ UNCHANGED <<hexLayer, h3, predReqs, weights, normalized>>
    /\ UNCHANGED <<chatVars, agentVars, delVars, selectVars, modeVars, infraVars, lastOp, autoVars>>

\* The page's h3 script has loaded: window.h3 (line 76) is defined from now
\* on.
H3Loaded ==
    /\ ~h3
    /\ h3' = TRUE
    /\ UNCHANGED <<hexLayer, hexLayerRef, status, predReqs, lastPred,
                   weights, normalized>>
    /\ UNCHANGED <<chatVars, agentVars, delVars, selectVars, modeVars, infraVars, lastOp, autoVars>>

\* History: the record of one prediction operation. late: a prediction
\* issued later was drawn before this response came.
\* by: what called runPrediction ("button", "effect" or "timer"); timer: the
\* interval timer whose callback it was.
Pred(op, outcome, tiles) ==
    [op |-> op, outcome |-> outcome, tiles |-> tiles, late |-> FALSE,
     by |-> "none", timer |-> Null]

\* function runPrediction up to its await fetch(url): what it changes
Predict(by, timer) ==
    /\ status' = "Predicting..."
    /\ predReqs' = Append(predReqs, [late |-> FALSE])
    /\ lastPred' = [Pred("run", "none", Null) EXCEPT !.by = by,
                                                     !.timer = timer]

\* function runPrediction up to its await fetch(url), as the Run Prediction
\* buttons call it once the component has mounted
runPrediction ==
    /\ lastPred.op # "none"
    /\ Len(predReqs) < MaxInFlight
    /\ Predict("button", Null)
    /\ UNCHANGED <<hexLayer, hexLayerRef, h3, weights, normalized>>
    /\ UNCHANGED <<chatVars, agentVars, delVars, selectVars, modeVars, infraVars, lastOp, autoVars>>

\* What the fetch of a prediction comes to: failed (rejected, not ok, or a
\* body that is no JSON), or data whose tiles are missing or a list.
Responses ==
    {[failed |-> TRUE, tiles |-> Null], [failed |-> FALSE, tiles |-> Null]}
    \cup {[failed |-> FALSE, tiles |-> Some(l)] : l \in TileLists}

\* PredictionSettled that takes a failure as an answer without cells: the
\* layer is cleared.
PredictionSettled_FailureClears(i, resp) ==
    LET drawn == ~resp.failed /\ resp.tiles # Null /\ resp.tiles[1] # <<>>
        outcome == IF resp.failed THEN "failed"
                   ELSE IF drawn THEN "tiles" ELSE "noTiles"
    IN  /\ i \in DOMAIN predReqs
        /\ predReqs' = LateAfter(predReqs, i,
                                 IF drawn THEN resp.tiles ELSE Null)
        /\ hexLayer' = IF drawn THEN drawHexes(resp.tiles)
                       ELSE IF resp.failed THEN <<>> ELSE hexLayer
        /\ status' = CASE resp.failed -> "Error"
                        [] drawn -> "Rendered " \o ToString(Len(resp.tiles[1]))
                                        \o " tiles"
                        [] OTHER -> "No tiles received from API"
        /\ lastPred' = [Pred("settled", outcome, resp.tiles) EXCEPT
                          !.late = predReqs[i].late]
        /\ UNCHANGED <<hexLayerRef, h3, weights, normalized>>
        /\ UNCHANGED <<chatVars, agentVars, delVars, selectVars, modeVars, infraVars, lastOp, autoVars>>

\* function runPrediction after its await (lines 144-156), for the i-th
\* prediction in flight
PredictionSettled(i, resp) ==
    LET drawn == ~resp.failed /\ resp.tiles # Null /\ resp.tiles[1] # <<>>
        outcome == IF resp.failed THEN "failed"
                   ELSE IF drawn THEN "tiles" ELSE "noTiles"
    IN  /\ i \in DOMAIN predReqs
        /\ predReqs' = LateAfter(predReqs, i,
                                 IF drawn THEN resp.tiles ELSE Null)
        /\ hexLayer' = IF drawn THEN drawHexes(resp.tiles) ELSE hexLayer
        /\ status' = CASE resp.failed -> "Error"
                        [] drawn -> "Rendered " \o ToString(Len(resp.tiles[1]))
                                        \o " tiles"
                        [] OTHER -> "No tiles received from API"
        /\ lastPred' = [Pred("settled", outcome, resp.tiles) EXCEPT
                          !.late = predReqs[i].late]
        /\ UNCHANGED <<hexLayerRef, h3, weights, normalized>>
        /\ UNCHANGED <<chatVars, agentVars, delVars, selectVars, modeVars, infraVars, lastOp, autoVars>>

\* The normalization of lines 68-80 applied to a list of weights.
WeightValues == {0, 1, 2, 3, 7}
Hundred == [i \in 1..100 |-> i]
WeightLists ==
    (SeqsUpTo(WeightValues, MaxWeights) \ {<<>>})
    \cup {Hundred, [i \in 1..100 |-> 101 - i]}
\* Finite weights at both ends of the double range, next to small ones.
WideValues == {-MaxValue, 0, MaxValue}
WideLists == SeqsUpTo(WideValues, MaxWeights) \ {<<>>}
NotNormalized == [lo |-> 0, hi |-> 0, range |-> 0, norms |-> <<>>,
                  colors |-> <<>>]

\* a response's weights: tiles.map(t => t.weight), line 68
TakeWeights(ws) ==
    /\ weights = <<>>
    /\ weights' = ws
    /\ UNCHANGED normalized
    /\ UNCHANGED <<hexLayer, hexLayerRef, h3, status, predReqs, lastPred>>
    /\ UNCHANGED <<chatVars, agentVars, delVars, selectVars, modeVars, infraVars, lastOp, autoVars>>

\* lines 68-72, then lines 79-81 (95-97) for every weight of the list
Normalize ==
    /\ weights # <<>>
    /\ normalized = NotNormalized
    /\ \E pc \in {Percentiles(weights)} :
          normalized' = [lo |-> pc.lo, hi |-> pc.hi, range |-> pc.range,
                         norms |-> [i \in DOMAIN weights |->
                                      Norm(weights[i], pc)],
                         colors |-> [i \in DOMAIN weights |->
                                       colorForWeight(Norm(weights[i], pc))]]
    /\ UNCHANGED weights
    /\ UNCHANGED <<hexLayer, hexLayerRef, h3, status, predReqs, lastPred>>
    /\ UNCHANGED <<chatVars, agentVars, delVars, selectVars, modeVars, infraVars, lastOp, autoVars>>

(***************************************************************************)
(* Density auto-refresh (MapContainer.jsx)                                 *)
(***************************************************************************)

\* The effect without a cleanup: a restart leaves the old timer set.
CleanupTimers_NoClear == autoTimers

\* The cleanup the auto prediction effect returned (lines 213-218): the
\* timers left when it has run, and the ref
CleanupTimers == IF autoTimerRef # Null THEN autoTimers \ {autoTimerRef[1]}
                 ELSE autoTimers

\* setInterval returns a timer id no timer that is set has.
FreshTimer(timers) == CHOOSE t \in 1..(Cardinality(timers) + 1) : t \notin timers

\* A dependency of the auto prediction effect has changed: React runs the
\* cleanup of the effect as it last ran, then the effect (lines 203-220)
\* with the new state.  nowAuto is auto as the effect reads it.
AutoEffect(nowAuto) ==
    \E timers \in {CleanupTimers} :
        IF nowAuto
        THEN \E t \in {FreshTimer(timers)} :
               /\ Len(predReqs) < MaxInFlight
               /\ Predict("effect", Null)
               /\ autoTimerRef' = Some(t)
               /\ autoTimers' = timers \cup {t}
        ELSE /\ autoTimerRef' = Null
             /\ autoTimers' = timers
             /\ lastPred' = [Pred("effect",
                                   IF timers # autoTimers THEN "cleared"
                                   ELSE "none", Null) EXCEPT
                               !.by = "effect"]
             /\ UNCHANGED <<status, predReqs>>

\* the Auto button: setAuto(a => !a), lines 271 and 356
ToggleAuto ==
    /\ lastPred.op # "none"
    /\ auto' = ~auto
    /\ AutoEffect(~auto)
    /\ UNCHANGED <<arima, hexLayer, hexLayerRef, h3, weights, normalized>>
    /\ UNCHANGED <<chatVars, agentVars, delVars, selectVars, modeVars, infraVars, lastOp>>

\* the ARIMA button: setArima(a => !a), lines 261 and 347; the other
\* dependencies (res, topK, the URLs, fullCover) restart the effect alike
ToggleArima ==
    /\ lastPred.op # "none"
    /\ arima' = ~arima
    /\ AutoEffect(auto)
    /\ UNCHANGED <<auto, hexLayer, hexLayerRef, h3, weights, normalized>>
    /\ UNCHANGED <<chatVars, agentVars, delVars, selectVars, modeVars, infraVars, lastOp>>

\* the callback of interval timer t (line 206): runPrediction
TimerTick(t) ==
    /\ t \in autoTimers
    /\ Len(predReqs) < MaxInFlight
    /\ Predict("timer", Some(t))
    /\ UNCHANGED <<autoVars, hexLayer, hexLayerRef, h3, weights, normalized>>
    /\ UNCHANGED <<chatVars, agentVars, delVars, selectVars, modeVars, infraVars, lastOp>>

(***************************************************************************)
(* AI assistant (App.jsx)                                                  *)
(***************************************************************************)
\* useState([...]) of lines 267-281: the three messages the chat starts
\* with
SeedMessages ==
    <<[type |-> "assistant", text |-> "Namaste"],
      [type |-> "user", text |-> "situation?"],
      [type |-> "assistant", text |-> "Status"]>>

\* What the operator may have typed; trim() removes the blanks around it.
InputValues == {"", "  ", "hi", " hi", "route?"}
trim(text) == CASE text = "  " -> ""
                [] text = " hi" -> "hi"
                [] OTHER -> text

\* History: the record of one assistant operation
Chat(op, text) == [op |-> op, text |-> text]

\* onChange of the input (no typing while it is disabled)
SetInputValue(text) ==
    /\ ~isLoading
    /\ inputValue' = text
    /\ lastChat' = Chat("input", text)
    /\ UNCHANGED <<messages, isLoading, llmReq>>
    /\ UNCHANGED <<agentVars, selectVars, modeVars, infraVars, delVars,
                   lastOp, densityVars>>

\* sendMessageToLLM up to its await fetch (lines 286-305)
sendMessageToLLM(userMessage) ==
    /\ isLoading' = TRUE
    /\ messages' = Append(messages, [type |-> "user", text |-> userMessage])
    /\ llmReq' = Some(userMessage)

\* handleSendMessage without the test of the input: whatever is typed is
\* sent.
handleSendMessage_NoTrim(by) ==
    /\ ~isLoading
    /\ by = "button" => trim(inputValue) # ""
    /\ Len(messages) < Len(SeedMessages) + 2 * MaxChat
    /\ sendMessageToLLM(inputValue)
    /\ inputValue' = ""
    /\ lastChat' = Chat("send", inputValue)
    /\ UNCHANGED <<agentVars, selectVars, modeVars, infraVars, delVars,
                   lastOp, densityVars>>

\* handleSendMessage (lines 440-445), called by the send button (disabled
\* while isLoading or while the input is blank) or by Enter in the input
\* (disabled while isLoading)
handleSendMessage(by) ==
    /\ ~isLoading
    /\ by = "button" => trim(inputValue) # ""
    /\ Len(messages) < Len(SeedMessages) + 2 * MaxChat
    /\ IF trim(inputValue) # ""
       THEN /\ sendMessageToLLM(inputValue)
            /\ inputValue' = ""
            /\ lastChat' = Chat("send", inputValue)
       ELSE /\ lastChat' = Chat("blank", inputValue)
            /\ UNCHANGED <<messages, inputValue, isLoading, llmReq>>
    /\ UNCHANGED <<agentVars, selectVars, modeVars, infraVars, delVars,
                   lastOp, densityVars>>

\* What the fetch to the local model comes to: "reply" a success status
\* with a response text, "noReply" a success status with no response in the
\* body, "notOk" another status, "rejected" no connection, "badJson" a body
\* that is no JSON.
LlmOutcomes == {"reply", "noReply", "notOk", "rejected", "badJson"}
DefaultReply == "I understand your question"
\* elaborateContextualResponses, of which generateSmartResponse picks one
\* at random
SmartResponses == {"smart1", "smart2"}
\* data.response for a user message
ReplyTo(userMessage) == "re: " \o userMessage

\* the assistant texts the rest of sendMessageToLLM (lines 307-330) may
\* append for an outcome
AssistantTexts(outcome, userMessage) ==
    CASE outcome = "reply" -> {ReplyTo(userMessage)}
      [] outcome = "noReply" -> {DefaultReply}
      [] OTHER -> SmartResponses

\* sendMessageToLLM after its await fetch (lines 307-330)
LlmSettled(outcome) ==
    /\ llmReq # Null
    /\ \E text \in AssistantTexts(outcome, llmReq[1]) :
          /\ messages' = Append(messages, [type |-> "assistant",
                                           text |-> text])
          /\ lastChat' = Chat(outcome, text)
    /\ isLoading' = FALSE
    /\ llmReq' = Null
    /\ UNCHANGED inputValue
    /\ UNCHANGED <<agentVars, selectVars, modeVars, infraVars, delVars,
                   lastOp, densityVars>>

(***************************************************************************)
(* Specifications                                                          *)
(***************************************************************************)
\* The state when the DOMContentLoaded handler has run: nothing selected,
\* no marker, the first infrastructure fetch (line 174) in flight and the
\* route buttons as updateRouteStatus() (line 449) leaves them.  The page's
\* markup is not part of the sources, so cancelModeBtn starts either way.
Init ==
    /\ agentMarkers = NoMarkers
    /\ mapLayers = NoMarkers
    /\ clearReqs = 0
    /\ lastMsg = [op |-> "none", snap |-> <<>>, creates |-> 0, destroys |-> 0]
    /\ selecting = "null"
    /\ sourceLatLng = Null
    /\ destLatLng = Null
    /\ sourceMarker = Null
    /\ destMarker = Null
    /\ routeLine = Null
    /\ mapPins = <<>>
    /\ mapPaths = <<>>
    /\ selectSourceActive = FALSE
    /\ selectDestActive = FALSE
    /\ addRoutedDisabled = TRUE
    /\ clearRouteDisabled = TRUE
    /\ startEventDisabled = TRUE
    /\ previewReqs = <<>>
    /\ infraMode = "null"
    /\ infraActive = {}
    /\ cancelModeDisabled \in BOOLEAN
    /\ addReqs = 0
    /\ infraFetches = <<[late |-> FALSE]>>
    /\ infraLayers = NoInfraLayers
    /\ delReqs = 0
    /\ clearInfraReqs = 0
    /\ lastOp = Ui("none", Null, "none")
    /\ hexLayer = <<>>
    /\ hexLayerRef = "null"
    /\ h3 = FALSE
    /\ status = "Idle"
    /\ predReqs = <<>>
    /\ lastPred = Pred("none", "none", Null)
    /\ weights = <<>>
    /\ normalized = NotNormalized
    /\ auto = FALSE
    /\ arima = FALSE
    /\ autoTimerRef = Null
    /\ autoTimers = {}
    /\ messages = SeedMessages
    /\ inputValue = ""
    /\ isLoading = FALSE
    /\ llmReq = Null
    /\ lastChat = Chat("none", "")

\* The push subscription and the bulk clear.
AgentsNext ==
    \/ \E snap \in Snapshots : OnMessage(snap)
    \/ ClickAgentsClear
    \/ \E resolved \in BOOLEAN : AgentsClearSettled(resolved)

SpecAgents == Init /\ [][AgentsNext]_vars

\* The assistant: the operator types and sends, the local model answers or
\* fails.  Every fetch settles: it resolves, or the browser rejects it.
ChatNext ==
    \/ \E text \in InputValues : SetInputValue(text)
    \/ \E by \in {"button", "enter"} : handleSendMessage(by)
    \/ \E outcome \in LlmOutcomes : LlmSettled(outcome)

SpecChat == Init /\ [][ChatNext]_vars
SpecChatLive ==
    SpecChat /\ WF_vars(\E outcome \in LlmOutcomes : LlmSettled(outcome))

\* The push subscription delivering snapshots of entities with string ids.
NamedNext ==
    \/ \E snap \in SeqsUpTo(NamedAgents, MaxSnapLen) : OnMessage(snap)
    \/ ClickAgentsClear
    \/ \E resolved \in BOOLEAN : AgentsClearSettled(resolved)

SpecNamed == Init /\ [][NamedNext]_vars

\* The push subscription delivering one entity whose type, phase and stop
\* change from message to message.
StyleNext == \E agent \in StyleAgents : OnMessage(<<agent>>)

SpecStyle == Init /\ [][StyleNext]_vars

\* The density layer: predictions run by hand and their responses.
DensityNext ==
    \/ \E ok \in BOOLEAN : MapInit(ok)
    \/ H3Loaded
    \/ runPrediction
    \/ \E i \in 1..MaxInFlight, resp \in Responses : PredictionSettled(i, resp)

SpecDensity == Init /\ [][DensityNext]_vars

\* The infrastructure delete commands: the right-click delete of a marker,
\* the bulk clear, and the refreshes that follow them.
CommandsNext ==
    \/ \E group \in DOMAIN NoInfraLayers, i \in 1..2, confirmed \in BOOLEAN :
          ContextMenu(group, i, confirmed)
    \/ \E outcome \in HttpOutcomes : DeleteSettled(outcome)
    \/ InfraClearClick
    \/ \E outcome \in HttpOutcomes : InfraClearSettled(outcome)
    \/ \E i \in 1..MaxInFlight, snap \in {Null} \cup {Some(x) : x \in InfraSnaps} :
          InfraSettled(i, snap)

SpecCommands == Init /\ [][CommandsNext]_vars

\* The auto refresh of the density layer: the Auto and ARIMA buttons, the
\* interval timer, and prediction responses that carry no cells.
AutoNext ==
    \/ \E ok \in BOOLEAN : MapInit(ok)
    \/ ToggleAuto
    \/ ToggleArima
    \/ \E t \in autoTimers : TimerTick(t)
    \/ runPrediction
    \/ \E i \in 1..MaxInFlight, resp \in {r \in Responses : r.tiles = Null} :
          PredictionSettled(i, resp)

SpecAuto == Init /\ [][AutoNext]_vars

\* The normalization on its own, applied to one list of weights.
NormNext ==
    \/ \E ws \in WeightLists : TakeWeights(ws)
    \/ Normalize

SpecNorm == Init /\ [][NormNext]_vars

\* The normalization applied to a list of weights from the whole double
\* range.
NormWideNext ==
    \/ \E ws \in WideLists : TakeWeights(ws)
    \/ Normalize

SpecNormWide == Init /\ [][NormWideNext]_vars

\* Route selection: map clicks outside placement mode, the two select
\* buttons, clear route and the route-preview responses.
SelectNext ==
    \/ SelectSourceClick
    \/ SelectDestClick
    \/ clearRouteSelection
    \/ \E p \in Points, text \in FieldTexts : MapClick(p, text)
    \/ \E i \in 1..MaxInFlight, outcome \in {"ok", "refused", "error"} :
          PreviewSettled(i, outcome)

SpecSelect == Init /\ [][SelectNext]_vars

\* Route selection with the two commands that use the route.
RoutedNext ==
    \/ SelectSourceClick
    \/ SelectDestClick
    \/ clearRouteSelection
    \/ \E p \in Points : MapClick(p, "")
    \/ PreviewSettled(1, "ok")
    \/ \E text \in CrowdTexts : AddRoutedClick(text)
    \/ StartEventClick

SpecRouted == Init /\ [][RoutedNext]_vars

\* Modes, placement and refresh: the operator presses the mode buttons,
\* places infrastructure and refreshes while the timer runs; the map is
\* clicked in placement mode only.
InfraNext ==
    \/ SelectSourceClick
    \/ SelectDestClick
    \/ \E kind \in InfraKinds : InfraModeClick(kind)
    \/ CancelModeClick
    \/ \E p \in Points, text \in FieldTexts :
          infraMode # "null" /\ MapClick(p, text)
    \/ \E outcome \in HttpOutcomes : AddSettled(outcome)
    \/ RefreshClick
    \/ RefreshTimer
    \/ \E i \in 1..MaxInFlight, snap \in {Null} \cup {Some(x) : x \in InfraSnaps} :
          InfraSettled(i, snap)

SpecInfra == Init /\ [][InfraNext]_vars

\* Route selection and placement together: the operator selects a route,
\* switches placement mode on and off and clicks the map in either.
PlaceNext ==
    \/ SelectSourceClick
    \/ SelectDestClick
    \/ \E kind \in InfraKinds : InfraModeClick(kind)
    \/ CancelModeClick
    \/ \E p \in {pt \in Points : pt.lat < 25} : MapClick(p, "")
    \/ PreviewSettled(1, "ok")
    \/ AddSettled("networkError")

SpecPlace == Init /\ [][PlaceNext]_vars

(***************************************************************************)
(* Claims                                                                  *)
(***************************************************************************)
SnapshotKeys(snap) == {PropertyKey(snap[i].id) : i \in DOMAIN snap}

\* C1: once ws.onmessage has applied a snapshot, the keys of agentMarkers are
\* exactly the ids of that snapshot (as property keys), whatever JSON type
\* the ids have.
C1_RenderedIdsEqualSnapshot ==
    lastMsg.op = "message" => DOMAIN agentMarkers = SnapshotKeys(lastMsg.snap)

\* C2: applying the snapshot that was applied just before creates no marker,
\* destroys no marker and leaves the keys of agentMarkers as they were.
C2_SecondApplicationNoOp ==
    [][(/\ lastMsg.op = "message"
        /\ lastMsg'.op = "message"
        /\ lastMsg'.snap = lastMsg.snap
        /\ clearReqs' = clearReqs)
       => (/\ lastMsg'.creates = 0
           /\ lastMsg'.destroys = 0
           /\ DOMAIN agentMarkers' = DOMAIN agentMarkers)]_vars

\* C3: in every reachable state a rendered preview path exists only when
\* both source and destination are set.
C3_PreviewOnlyWhenBothSet ==
    routeLine # Null => (sourceLatLng # Null /\ destLatLng # Null)

\* C4: a route-preview response that arrives after source or destination
\* changed since its request was sent neither creates nor replaces routeLine.
C4_StaleResponseDiscarded ==
    [][(lastOp'.op = "previewSettled" /\ lastOp'.stale)
       => routeLine' = routeLine]_vars

\* C5: every operation that changes source or destination (a click resolved
\* as source, destination or reset, or clear route) leaves no preview path
\* rendered when it ends.
C5_SelectionChangeClearsPreview ==
    [][(sourceLatLng' # sourceLatLng \/ destLatLng' # destLatLng)
       => routeLine' = Null]_vars

\* C6: the default flow. The first click (Idle, no source, no placement
\* mode) sets the source and leaves the mode Idle; the next click sets the
\* destination, sends one route-preview request for (source, click) and
\* leaves the mode Idle; the third click sets the source, unsets the
\* destination and removes the preview path.
C6_DefaultTwoClickFlow ==
    [][lastOp'.op = "click" =>
        /\ lastOp'.flow = 1 =>
              /\ sourceLatLng' = lastOp'.at
              /\ selecting' = "null"
        /\ lastOp'.flow = 2 =>
              /\ destLatLng' = lastOp'.at
              /\ sourceLatLng' = sourceLatLng
              /\ Len(previewReqs') = Len(previewReqs) + 1
              /\ previewReqs'[Len(previewReqs')].body =
                    [number |-> 1,
                     source_lat |-> sourceLatLng[1].lat,
                     source_lon |-> sourceLatLng[1].lng,
                     dest_lat |-> lastOp'.at[1].lat,
                     dest_lon |-> lastOp'.at[1].lng]
              /\ selecting' = "null"
        /\ lastOp'.flow = 3 =>
              /\ sourceLatLng' = lastOp'.at
              /\ destLatLng' = Null
              /\ routeLine' = Null]_vars

\* C6 witness: the third click of the flow has removed a preview path that
\* was rendered.
C6_ThirdClickRemovedPreview ==
    /\ lastOp.op = "click"
    /\ lastOp.flow = 3
    /\ lastOp.shown
    /\ routeLine = Null
    /\ destLatLng = Null
    /\ sourceLatLng = lastOp.at

\* C7: in placement mode every map click sends exactly one add request of the
\* mode's kind at the click coordinate and leaves infraMode as it was.
C7_PlacementSticky ==
    [][(lastOp'.op = "click" /\ infraMode \in InfraKinds)
       => (/\ addReqs' = addReqs + 1
           /\ infraMode' = infraMode
           /\ lastOp'.sent # Null
           /\ lastOp'.sent[1].url =
                 (CASE infraMode = "gateway" -> "add-gateway"
                    [] infraMode = "tower" -> "add-mobile-tower"
                    [] infraMode = "toll" -> "add-toll-gate")
           /\ lastOp'.sent[1].lat = lastOp'.at[1].lat
           /\ lastOp'.sent[1].lon = lastOp'.at[1].lng)]_vars

\* C7 witness: two consecutive clicks in tower mode, two add-tower requests
\* in flight, still in tower mode.
C7_TwoTowerClicks ==
    /\ lastOp.op = "click"
    /\ lastOp.branch = "infra"
    /\ lastOp.sent # Null
    /\ lastOp.sent[1].url = "add-mobile-tower"
    /\ addReqs >= 2
    /\ infraMode = "tower"

\* C8: selection mode and placement mode are never both active.
C8_ModesExclusive == ~(selecting # "null" /\ infraMode # "null")

\* C9: after any map click outside placement mode the mode is Idle and both
\* select buttons are inactive.
C9_ClickReturnsToIdle ==
    [][(lastOp'.op = "click" /\ infraMode = "null")
       => (/\ selecting' = "null"
           /\ ~selectSourceActive'
           /\ ~selectDestActive')]_vars

\* C10: the data of a refresh issued before one whose data was already
\* rendered does not overwrite the rendered infrastructure groups.
C10_LateRefreshDoesNotOverwrite ==
    [][(lastOp'.op = "infraSettled" /\ lastOp'.stale
        /\ lastOp'.branch = "ok")
       => infraLayers' = infraLayers]_vars

\* C11: when an infrastructure refresh fails, the rendered gateway, tower
\* and toll groups are left exactly as they were.
C11_FailedRefreshKeepsGroups ==
    [][(lastOp'.op = "infraSettled" /\ lastOp'.branch = "failed")
       => infraLayers' = infraLayers]_vars

\* C15: a click in tower mode with an empty or non-numeric radius field
\* sends one add-mobile-tower request with radius 0.01; a click in toll mode
\* with an empty or non-numeric fee field sends one add-toll-gate request
\* with fee null.
C15_MalformedInputStillPlaces ==
    [][(lastOp'.op = "click" /\ lastOp'.branch = "infra"
        /\ lastOp'.text \in {"", "abc"})
       => /\ addReqs' = addReqs + 1
          /\ infraMode = "tower" =>
                /\ lastOp'.sent[1].url = "add-mobile-tower"
                /\ lastOp'.sent[1].extra = Some(1)
          /\ infraMode = "toll" =>
                /\ lastOp'.sent[1].url = "add-toll-gate"
                /\ lastOp'.sent[1].extra = Null]_vars
\* a second tower click, made with a non-numeric radius field
C15_MalformedTowerClick ==
    /\ lastOp.op = "click" /\ lastOp.branch = "infra"
    /\ lastOp.text = "abc" /\ infraMode = "tower"
    /\ lastOp.sent[1].extra = Some(1) /\ addReqs = 2

\* C16: after an empty snapshot is applied, agentMarkers is empty and no
\* marker is left on the map.
C16_EmptySnapshotClears ==
    (lastMsg.op = "message" /\ lastMsg.snap = <<>>)
    => (DOMAIN agentMarkers = {} /\ DOMAIN mapLayers = {})
\* an empty snapshot has removed two rendered markers
C16_EmptySnapshotRemovedTwo ==
    /\ lastMsg.op = "message" /\ lastMsg.snap = <<>>
    /\ lastMsg.destroys = 2 /\ DOMAIN mapLayers = {}

\* C17: the marker of the entity a message carries has the colour that the
\* precedence event phase > stopped > category > default gives: an event
\* entity its phase colour (the event default for an absent or unknown
\* phase) whatever stop is, a stopped non-event entity the stopped colour, a
\* moving random entity the random colour, any other entity the default;
\* this holds when the message updates an existing marker as when it
\* creates one.
C17_StylePrecedence ==
    (lastMsg.op = "message" /\ Len(lastMsg.snap) = 1)
    => LET agent == lastMsg.snap[1]
           key == PropertyKey(agent.id)
           colour == mapLayers[agentMarkers[key]].style
       IN  /\ key \in DOMAIN agentMarkers
           /\ (agent.type = "event" /\ agent.phase = "to_dest")
                 => colour = "#ff9800"
           /\ (agent.type = "event" /\ agent.phase = "dwelling")
                 => colour = "#e53935"
           /\ (agent.type = "event" /\ agent.phase = "exiting")
                 => colour = "#6a1b9a"
           /\ (agent.type = "event" /\ agent.phase = "settled")
                 => colour = "#2e7d32"
           /\ (agent.type = "event" /\ agent.phase \in {"none", "parade"})
                 => colour = "#ffb74d"
           /\ (agent.type # "event" /\ agent.stop) => colour = "#0d47a1"
           /\ (agent.type = "random" /\ ~agent.stop) => colour = "#2d6cdf"
           /\ (agent.type \notin {"event", "random"} /\ ~agent.stop)
                 => colour = "#1976d2"
\* a message has updated the existing marker of a stopped event entity in
\* its dwelling phase
C17_StoppedEventRestyled ==
    /\ lastMsg.op = "message" /\ lastMsg.creates = 0
    /\ Len(lastMsg.snap) = 1
    /\ lastMsg.snap[1].type = "event" /\ lastMsg.snap[1].stop
    /\ lastMsg.snap[1].phase = "dwelling"
    /\ mapLayers[agentMarkers["a"]].style = "#e53935"

\* C18: after the cancel button is pressed, infraMode is null and selecting
\* is null, whatever mode the controller was in.
C18_CancelReturnsToIdle ==
    [][(lastOp'.op = "setInfraMode" /\ lastOp'.branch = "null")
       => (infraMode' = "null" /\ selecting' = "null")]_vars

\* C19: a click taken as the source sets the source to the click's
\* coordinate and leaves no destination, no destination marker and no
\* preview path.
C19_SourceClickClearsRoute ==
    [][(lastOp'.op = "click" /\ lastOp'.branch = "source")
       => /\ sourceLatLng' = lastOp'.at
          /\ destLatLng' = Null
          /\ destMarker' = Null
          /\ routeLine' = Null]_vars

\* C20: a click taken as the destination sets the destination to the
\* click's coordinate and sends exactly one route-preview request, from the
\* current source to the clicked point.
C20_DestClickRequestsPreview ==
    [][(lastOp'.op = "click" /\ lastOp'.branch \in {"dest", "destThrow"})
       => /\ destLatLng' = lastOp'.at
          /\ Len(previewReqs') = Len(previewReqs) + 1
          /\ sourceLatLng # Null
          /\ lastOp'.sent = Some(PreviewBody(sourceLatLng[1], lastOp'.at[1]))
       ]_vars

\* C12: after a prediction response without cells (tiles missing or an
\* empty list) the density layer is empty.
C12_NoTilesClearsLayer ==
    (lastPred.op = "settled" /\ lastPred.outcome = "noTiles")
    => hexLayer = <<>>

C14_OneShapePerCell ==
    [][(Len(predReqs') < Len(predReqs) /\ lastPred'.outcome = "tiles"
        /\ hexLayerRef = "group")
       => LET tiles == lastPred'.tiles[1]
          IN  /\ Len(hexLayer') = Len(tiles)
              /\ \A i \in DOMAIN tiles :
                    /\ hexLayer'[i].cell = tiles[i]
                    /\ hexLayer'[i].kind =
                          IF h3 /\ tiles[i].h3_index # ""
                                /\ Resolvable(tiles[i].h3_index)
                          THEN "polygon" ELSE "circle"]_vars

\* C21: at most one auto-refresh timer is set, it is the one
\* autoTimerRef holds, none is set while auto is false, and a prediction
\* issued by a timer callback comes from the current timer while auto is
\* true.
C21_AutoTimerStopped ==
    /\ Cardinality(autoTimers) <= 1
    /\ autoTimers = {autoTimerRef[i] : i \in DOMAIN autoTimerRef}
    /\ ~auto => autoTimers = {}
    /\ lastPred.by = "timer" => (auto /\ lastPred.timer = autoTimerRef)
\* auto has been switched off and the effect's cleanup has cleared a timer
C21_SwitchedOffCleared ==
    /\ ~auto /\ lastPred.op = "effect" /\ lastPred.outcome = "cleared"
    /\ autoTimers = {} /\ autoTimerRef = Null
    /\ Len(predReqs) = 2

\* C22: when the bulk entity clear is issued (a DELETE /agents request
\* goes out), the rendered entity set is empty at once, whatever becomes of
\* the request.
C22_ClearIsImmediate ==
    [][clearReqs' = clearReqs + 1
       => (DOMAIN agentMarkers' = {} /\ DOMAIN mapLayers' = {})]_vars

\* C23: a right-click on an infrastructure marker sends a DELETE request
\* only when the operator confirms, for the id and kind of the marker's
\* record, and the settled delete is followed by an infrastructure refresh;
\* a declined confirmation sends no request and refreshes nothing.
C23_ConfirmedDeleteThenRefresh ==
    [][/\ delReqs' > delReqs
            => /\ lastOp'.op = "contextmenu" /\ lastOp'.branch = "confirmed"
               /\ delReqs' = delReqs + 1
               /\ LET m == lastOp'.at[1]
                  IN  lastOp'.sent =
                        Some([url |-> CASE m.group = "gateways" -> "gateways"
                                        [] m.group = "tower" -> "mobile-towers"
                                        [] m.group = "toll" -> "toll-gates",
                              id |-> infraLayers[m.group][m.i].id])
       /\ (lastOp'.op = "contextmenu" /\ lastOp'.branch = "declined")
            => (delReqs' = delReqs /\ infraFetches' = infraFetches
                /\ infraLayers' = infraLayers)
       /\ lastOp'.op = "deleteSettled"
            => Len(infraFetches') = Len(infraFetches) + 1]_vars

\* C24: an infrastructure command (add, delete, bulk clear) sends one
\* request and its settling sends no other (no retry); and a non-success
\* HTTP response has the same follow-up as a network error would have had:
\* a refresh after both or after neither.
C24_FailuresHandledAlike ==
    [][/\ addReqs' <= addReqs + 1 /\ delReqs' <= delReqs + 1
       /\ clearInfraReqs' <= clearInfraReqs + 1
       /\ lastOp'.op \in {"addSettled", "deleteSettled", "infraClearSettled"}
            => /\ addReqs' <= addReqs /\ delReqs' <= delReqs
               /\ clearInfraReqs' <= clearInfraReqs
       /\ (lastOp'.op = "addSettled" /\ lastOp'.branch = "httpError")
            => (Len(infraFetches') > Len(infraFetches)
                <=> ENABLED (AddSettled("networkError")
                             /\ Len(infraFetches') > Len(infraFetches)))
       /\ (lastOp'.op = "deleteSettled" /\ lastOp'.branch = "httpError")
            => (Len(infraFetches') > Len(infraFetches)
                <=> ENABLED (DeleteSettled("networkError")
                             /\ Len(infraFetches') > Len(infraFetches)))
       /\ (lastOp'.op = "infraClearSettled" /\ lastOp'.branch = "httpError")
            => (Len(infraFetches') > Len(infraFetches)
                <=> ENABLED (InfraClearSettled("networkError")
                             /\ Len(infraFetches') > Len(infraFetches)))
      ]_vars

\* C25: after a refresh response with data is applied, whatever refreshes
\* overlap, each group holds exactly one marker per record of its kind in
\* that response, in order and at the record's position, and every layer of
\* the group (a tower's radius circle included) belongs to a record of that
\* response.
C25_GroupsRebuiltFromResponse ==
    [][(lastOp'.op = "infraSettled" /\ lastOp'.branch = "ok")
       => LET snap == lastOp'.got[1]
              IsMarker(l) == l.shape = "circleMarker"
              Rebuilt(layers, records) ==
                  /\ LET markers == SelectSeq(layers, IsMarker)
                     IN  /\ Len(markers) = Len(records)
                         /\ \A i \in DOMAIN records :
                               /\ markers[i].id = records[i].id
                               /\ markers[i].lat = records[i].lat
                               /\ markers[i].lon = records[i].lon
                  /\ \A j \in DOMAIN layers :
                        \E i \in DOMAIN records : layers[j].id = records[i].id
          IN  /\ Rebuilt(infraLayers'.gateways, snap.gateways)
              /\ Rebuilt(infraLayers'.tower, snap.mobile_towers)
              /\ Rebuilt(infraLayers'.toll, snap.toll_gates)]_vars
\* the data of a refresh overtaken by a later one has been applied over the
\* layers of the later one: a tower with its radius circle, and no toll gate
C25_OvertakenResponseApplied ==
    /\ lastOp.op = "infraSettled" /\ lastOp.branch = "ok" /\ lastOp.stale
    /\ Len(infraLayers.tower) = 2 /\ infraLayers.toll = <<>>

\* C26: a failed route preview (data.ok false, or a transport or parse
\* error) changes neither the preview path on the map nor source,
\* destination, their markers, the selecting flag or the placement mode; and
\* after it every map click is still taken.
C26_FailedPreviewDropped ==
    /\ [][(lastOp'.op = "previewSettled"
            /\ lastOp'.branch \in {"refused", "error"})
           => UNCHANGED <<routeLine, sourceLatLng, destLatLng, sourceMarker,
                          destMarker, selecting, infraMode>>]_vars
    /\ []((lastOp.op = "previewSettled"
            /\ lastOp.branch \in {"refused", "error"})
           => \A p \in Points : ENABLED MapClick(p, ""))
\* a preview has failed while the path of an earlier one is on the map
C26_FailedWithPathShown ==
    /\ lastOp.op = "previewSettled" /\ lastOp.branch = "error"
    /\ routeLine # Null /\ destLatLng # Null /\ sourceLatLng # Null

\* C27 (as stated): for every non-empty list of finite weights the range
\* drawHexes divides by is strictly positive, and every cell's normalized
\* value n / d lies in 0..1: d > 0 and 0 <= n <= d.
C27_RangePositiveNormInUnit ==
    normalized # NotNormalized
    => /\ normalized.range > 0
       /\ \A i \in DOMAIN weights :
            /\ normalized.norms[i].d > 0
            /\ 0 <= normalized.norms[i].n
            /\ normalized.norms[i].n <= normalized.norms[i].d
\* C28: colorForWeight returns rgb(68,68,68) at 0, rgb(255,235,59) at 0.5
\* and rgb(244,67,54) at 1; both formulas give the same colour at 0.5;
\* within each half every channel moves monotonically from one anchor to
\* the next (red and green up and blue down in the lower half, all three
\* down in the upper half); and every channel is within 0..255.
C28_ThreeAnchorInterpolation ==
    normalized # NotNormalized
    => \A i \in DOMAIN weights :
         LET ni == normalized.norms[i]
             ci == normalized.colors[i]
         IN  /\ ni.n = 0 => ci = <<68, 68, 68>>
             /\ 2 * ni.n = ni.d
                  => /\ ci = <<255, 235, 59>>
                     /\ LowerHalf(ni) = UpperHalf(ni)
             /\ ni.n = ni.d => ci = <<244, 67, 54>>
             /\ \A k \in 1..3 : ci[k] \in 0..255
             /\ \A j \in DOMAIN weights :
                  LET nj == normalized.norms[j]
                      cj == normalized.colors[j]
                  IN  ni.n * nj.d <= nj.n * ni.d
                      => /\ 2 * nj.n <= nj.d
                              => /\ ci[1] <= cj[1] /\ ci[2] <= cj[2]
                                 /\ ci[3] >= cj[3]
                                 /\ ci[1] >= 68 /\ cj[1] <= 255
                                 /\ ci[2] >= 68 /\ cj[2] <= 235
                                 /\ ci[3] <= 68 /\ cj[3] >= 59
                         /\ 2 * ni.n >= ni.d
                              => /\ ci[1] >= cj[1] /\ ci[2] >= cj[2]
                                 /\ ci[3] >= cj[3]
                                 /\ ci[1] <= 255 /\ cj[1] >= 244
                                 /\ ci[2] <= 235 /\ cj[2] >= 67
                                 /\ ci[3] <= 59 /\ cj[3] >= 54
\* the weights 1..100 have been coloured: grey at norm 0, yellow at 0.5,
\* red at 1, and the colours between the anchors differ from them
C28_HundredColoured ==
    /\ weights = Hundred
    /\ normalized # NotNormalized
    /\ normalized.norms[50] = Frac(45, 90)
    /\ normalized.colors[1] = <<68, 68, 68>>
    /\ normalized.colors[50] = <<255, 235, 59>>
    /\ normalized.colors[100] = <<244, 67, 54>>
    /\ normalized.colors[30] = <<172, 161, 63>>
    /\ normalized.colors[70] = <<250, 160, 57>>
\* What is rendered: for every key of agentMarkers the position and style
\* of its layer.
Rendered(markers, layers) == [k \in DOMAIN markers |-> layers[markers[k]]]

\* What a console that has rendered nothing yet renders when ws.onmessage
\* handles the snapshot.
RenderedByFresh(agents) ==
    LET st == ForEachAgent(agents, [markers |-> NoMarkers,
                                    layers |-> NoMarkers,
                                    ids |-> {}, creates |-> 0,
                                    threw |-> FALSE])
        gone == IF st.threw THEN {} ELSE AbsentKeys(st.markers, st.ids)
    IN  Rendered(Without(st.markers, gone), st.layers)

\* C29 (as stated): the rendered state after a snapshot S has been handled
\* (the keys, and each key's position and style) depends only on S: it is
\* what a console without any history renders for S.
C29_RenderedDependsOnSnapshotOnly ==
    lastMsg.op \in {"message", "threw"}
    => Rendered(agentMarkers, mapLayers) = RenderedByFresh(lastMsg.snap)
\* C30: a map click while a placement mode is on leaves the source, the
\* destination, both selection markers, the preview path and the selecting
\* flag as they were.
C30_PlacementClickKeepsSelection ==
    [][(infraMode # "null" /\ lastOp'.op = "click")
       => UNCHANGED <<sourceLatLng, destLatLng, sourceMarker, destMarker,
                      routeLine, selecting>>]_vars
\* a placement click has been handled with a route previewed and a select
\* button armed
C30_PlacedWithRouteAndArmed ==
    /\ lastOp.op = "click" /\ lastOp.branch = "infra"
    /\ lastOp.sent # Null
    /\ infraMode # "null"
    /\ selecting = "source"
    /\ sourceLatLng # Null /\ destLatLng # Null /\ routeLine # Null
\* C31 (as stated): the response to a prediction issued before another one
\* whose response has already been drawn does not change the density layer.
C31_LateResponseNotDrawn ==
    [][(Len(predReqs') < Len(predReqs) /\ lastPred'.op = "settled"
        /\ lastPred'.late)
       => hexLayer' = hexLayer]_vars
\* C32: when a prediction fails (the fetch rejects, the status is not ok or
\* the body is no JSON) the density layer keeps the shapes it had; of the
\* component's state only the status text changes, to the error text.
C32_FailedPredictionKeepsLayer ==
    [][(Len(predReqs') < Len(predReqs) /\ lastPred'.op = "settled"
        /\ lastPred'.outcome = "failed")
       => /\ hexLayer' = hexLayer
          /\ status' = "Error"
          /\ UNCHANGED <<hexLayerRef, h3, autoVars>>]_vars
\* a prediction has failed with shapes on the layer
C32_FailedWithShapes ==
    /\ lastPred.op = "settled" /\ lastPred.outcome = "failed"
    /\ hexLayer # <<>> /\ status = "Error"
\* C33: after drawHexes(tiles) with a non-empty list the layer holds at
\* most one shape per cell of the list, each made from a cell of the list
\* with the list's normalization, in the list's order; nothing else, so no
\* shape of an earlier call, is left.
C33_LayerRebuiltFromList ==
    [][(Len(predReqs') < Len(predReqs) /\ lastPred'.op = "settled"
        /\ lastPred'.outcome = "tiles")
       => LET tiles == lastPred'.tiles[1]
              pc == Percentiles([i \in DOMAIN tiles |-> tiles[i].weight])
          IN  /\ Len(hexLayer') <= Len(tiles)
              /\ \E f \in [DOMAIN hexLayer' -> DOMAIN tiles] :
                   /\ \A a, b \in DOMAIN hexLayer' : a < b => f[a] < f[b]
                   /\ \A a \in DOMAIN hexLayer' :
                        /\ hexLayer'[a].cell = tiles[f[a]]
                        /\ hexLayer'[a].norm = Norm(tiles[f[a]].weight, pc)
       ]_vars
\* a list of two cells has been drawn and the layer holds one shape, the
\* polygon of the list's second cell
C33_RedrawnOverOtherShapes ==
    /\ lastPred.op = "settled" /\ lastPred.outcome = "tiles"
    /\ Len(lastPred.tiles[1]) = 2 /\ Len(hexLayer) = 1
    /\ hexLayer[1].cell = lastPred.tiles[1][2]
    /\ hexLayer[1].kind = "polygon"
\* C34: a successful route-preview response is rendered as a path with as
\* many points as the response's list, in its order, each [lon, lat] pair
\* as [lat, lon]; the path replaces the one rendered before, and at most
\* one preview path is on the map at any time.
C34_PreviewRenderedOnce ==
    /\ [][(lastOp'.op = "previewSettled" /\ lastOp'.branch = "ok"
           /\ Len(previewReqs') < Len(previewReqs))
          => \E i \in DOMAIN previewReqs :
               LET points == RoutePoints(previewReqs[i].body)
               IN  /\ previewReqs' = RemoveAt(previewReqs, i)
                   /\ routeLine' # Null
                   /\ Len(routeLine'[1]) = Len(points)
                   /\ \A k \in DOMAIN points :
                        /\ routeLine'[1][k][1] = points[k][2]
                        /\ routeLine'[1][k][2] = points[k][1]
                   /\ mapPaths' = <<routeLine'[1]>>]_vars
    /\ [](Len(mapPaths) <= 1)
\* a second preview has been rendered in place of another path
C34_SecondPreviewRendered ==
    /\ lastOp.op = "previewSettled" /\ lastOp.branch = "ok"
    /\ lastOp.shown
    /\ routeLine # Null /\ mapPaths = <<routeLine[1]>>
    /\ routeLine[1][1] = <<23, 75>> /\ routeLine[1][2] = <<24, 76>>
\* C35: in every state the circles on the map are exactly the values of
\* agentMarkers, one per key: every circle made is referenced by a key or
\* has been removed from the map, and no two keys share a circle.
C35_NoHandleLeaks ==
    /\ DOMAIN mapLayers = Range(agentMarkers)
    /\ \A j, k \in DOMAIN agentMarkers :
          agentMarkers[j] = agentMarkers[k] => j = k
\* a snapshot that repeats an id and carries a numeric id has been applied
\* over a rendered marker: one created, one destroyed, one marker left
C35_RepeatedAndNumericApplied ==
    /\ lastMsg.op = "message" /\ Len(lastMsg.snap) = 2
    /\ lastMsg.snap[1].id = NumId(1) /\ lastMsg.snap[2].id = NumId(1)
    /\ lastMsg.creates = 1 /\ lastMsg.destroys = 2
    /\ DOMAIN agentMarkers = {}
\* C36: in every state a source marker is on the map if and only if the
\* source is set, a destination marker if and only if the destination is
\* set, there is one of each at most, and each sits at the coordinate it
\* mirrors.
C36_MarkersMirrorSelection ==
    /\ sourceLatLng = sourceMarker
    /\ destLatLng = destMarker
    /\ \A i \in DOMAIN mapPins :
          \/ mapPins[i].kind = "src" /\ sourceLatLng = Some(mapPins[i].at)
          \/ mapPins[i].kind = "dst" /\ destLatLng = Some(mapPins[i].at)
    /\ Cardinality({i \in DOMAIN mapPins : mapPins[i].kind = "src"})
         = IF sourceLatLng # Null THEN 1 ELSE 0
    /\ Cardinality({i \in DOMAIN mapPins : mapPins[i].kind = "dst"})
         = IF destLatLng # Null THEN 1 ELSE 0
\* a destination has been re-picked with the destination button: both
\* markers are on the map, the destination marker moved
C36_DestinationMoved ==
    /\ lastOp.op = "click" /\ lastOp.branch = "dest" /\ lastOp.shown
    /\ mapPins = <<Pin("src", sourceLatLng[1]), Pin("dst", lastOp.at[1])>>
    /\ sourceLatLng[1] # lastOp.at[1]
\* C37 (as stated): in every state the Select Source button is marked
\* active if and only if selecting is 'source', the Select Destination
\* button if and only if selecting is 'dest', and a placement button if and
\* only if infraMode is its kind.
C37_IndicatorsReflectMode ==
    /\ selectSourceActive <=> selecting = "source"
    /\ selectDestActive <=> selecting = "dest"
    /\ \A kind \in InfraKinds : kind \in infraActive <=> infraMode = kind
\* C38 (as stated): a placement click in tower or toll mode with a field
\* text that parses as a number sends that number, 0 included, as the
\* radius or the fee of the add request.
C38_NumericInputSentUnchanged ==
    [][(infraMode \in {"tower", "toll"} /\ lastOp'.op = "click"
        /\ ~parseFloat(lastOp'.text).nan)
       => /\ lastOp'.sent # Null
          /\ lastOp'.sent[1].extra = Some(parseFloat(lastOp'.text).v)]_vars
\* C39: an add-routed-crowd or start-event request is sent only in a state
\* where source and destination are both set, and it carries the current
\* source and destination coordinates; and in every state the add-routed
\* and start-event buttons are enabled if and only if both are set.
C39_RouteCommandsGuarded ==
    /\ [][(lastOp'.op \in {"addRouted", "startEvent"}
           /\ lastOp'.sent # Null)
          => /\ sourceLatLng # Null /\ destLatLng # Null
             /\ lastOp'.sent[1].coords.source_lat = sourceLatLng[1].lat
             /\ lastOp'.sent[1].coords.source_lon = sourceLatLng[1].lng
             /\ lastOp'.sent[1].coords.dest_lat = destLatLng[1].lat
             /\ lastOp'.sent[1].coords.dest_lon = destLatLng[1].lng]_vars
    /\ [](/\ ~addRoutedDisabled <=> (sourceLatLng # Null /\ destLatLng # Null)
          /\ ~startEventDisabled
               <=> (sourceLatLng # Null /\ destLatLng # Null))
\* a routed crowd of 3 has been requested for a previewed route
C39_RoutedCrowdRequested ==
    /\ lastOp.op = "addRouted" /\ lastOp.branch = "sent"
    /\ lastOp.sent[1].number = 3
    /\ lastOp.sent[1].coords = RouteCoords([lat |-> 25, lng |-> 77],
                                           [lat |-> 23, lng |-> 75])
    /\ routeLine # Null
\* C40: in the assistant a blank or whitespace-only input sends nothing
\* and appends nothing; a send of a non-blank input appends exactly the
\* user message and sets isLoading; the settling of the request appends
\* exactly one assistant message right after that user message (the
\* model's reply, or a locally generated response when the model is
\* unreachable or answers with a non-success status) and resets isLoading;
\* isLoading is true exactly while the request is in flight, so user and
\* assistant messages alternate; and isLoading is eventually false again.
C40_OneReplyPerSentMessage ==
    /\ [][/\ (trim(inputValue) = "" /\ ~isLoading)
              => (messages' = messages /\ llmReq' = Null /\ ~isLoading')
          /\ (llmReq = Null /\ llmReq' # Null)
              => /\ llmReq' = Some(inputValue)
                 /\ messages' = Append(messages, [type |-> "user",
                                                  text |-> inputValue])
                 /\ isLoading'
          /\ (llmReq # Null /\ llmReq' # llmReq)
              => /\ llmReq' = Null /\ ~isLoading'
                 /\ messages[Len(messages)]
                      = [type |-> "user", text |-> llmReq[1]]
                 /\ Len(messages') = Len(messages) + 1
                 /\ SubSeq(messages', 1, Len(messages)) = messages
                 /\ messages'[Len(messages')].type = "assistant"
                 /\ lastChat'.op = "reply"
                      => messages'[Len(messages')].text = ReplyTo(llmReq[1])
                 /\ lastChat'.op \in {"notOk", "rejected"}
                      => messages'[Len(messages')].text \in SmartResponses
          /\ (llmReq' = llmReq /\ llmReq # Null) => messages' = messages
         ]_vars
    /\ [](/\ isLoading <=> llmReq # Null
          /\ isLoading <=> (Len(messages) - Len(SeedMessages)) % 2 = 1
          /\ \A i \in (Len(SeedMessages) + 1)..Len(messages) :
               messages[i].type = IF (i - Len(SeedMessages)) % 2 = 1
                                  THEN "user" ELSE "assistant")
    /\ (isLoading ~> ~isLoading)
\* two messages have been sent: the first was answered by the model, the
\* second by a locally generated response after the fetch was rejected
C40_AnsweredThenFellBack ==
    /\ lastChat.op = "rejected" /\ ~isLoading
    /\ Len(messages) = Len(SeedMessages) + 4
    /\ messages[4] = [type |-> "user", text |-> " hi"]
    /\ messages[5] = [type |-> "assistant", text |-> ReplyTo(" hi")]
    /\ messages[6].type = "user"
    /\ messages[7].text \in SmartResponses
====
